---- MODULE Spec2Model ----
(***************************************************************************)
(* Model of dbcfeederlib/canclient.py: the CANClient wrapper around a      *)
(* python-can bus (or the optional kuksa_can_bridge client), and the       *)
(* factory functions create_kuksa_client and create_default_client.        *)
(*                                                                         *)
(* The external collaborators (can.interface.Bus, kuksa_can_bridge, the    *)
(* platform module, the bus' send/recv/shutdown) are the environment: each *)
(* of their outcomes is a nondeterministic input.  Every open attempt the  *)
(* code makes is recorded in `log`, and every handle that was acquired and *)
(* not closed is in `held`.                                                *)
(***************************************************************************)
EXTENDS Integers, Sequences, FiniteSets, TLC

\* ------------------------------------------------------------------ bounds
\* Outcomes of can.interface.Bus are drawn per attempt, for this many
\* attempts of one interface within one construction.
MaxOpens == 3
\* stop() calls on one client.
MaxStops == 2
\* Frames pending in the queue of a virtual bus that receives its own
\* messages.
MaxQueue == 2

\* ------------------------------------------------------------- value sets
NoChannel == "<None>"
NoPort == <<>>
NoBus == "<unset>"
DefaultBitrate == 500000

Systems == {"linux", "windows"}
Interfaces == {"socketcan", "virtual", "pcan", "udp_multicast", "kuksa"}
BusKinds == {"socketcan", "virtual", "pcan", "udp_multicast"}
Channels == {"vcan0", "PCAN_USBBUS1", "pcan_usbbus1"}
Ports == {NoPort, <<43113>>}
Bitrates == {DefaultBitrate}

\* What the import of kuksa_can_bridge and the CanClient constructor do:
\*   "absent"     the import raises ImportError
\*   "ctor_fails" CanClient(...) raises; no bridge client exists
\*   "bus_fails"  CanClient(...) returns and is stored in self._kuksa_client,
\*                then reading its .bus raises
\*   "ok"         both succeed
BridgeStates == {"absent", "ctor_fails", "bus_fails", "ok"}

Envs ==
    [system : Systems,
     bridge : BridgeStates,
     socketcan : [1..MaxOpens -> BOOLEAN],
     virtual : [1..MaxOpens -> BOOLEAN],
     pcan : BOOLEAN,
     udp_multicast : BOOLEAN]

\* ---------------------------------------------------------------- helpers
\* channel.upper()
Upper(channel) ==
    IF channel = "pcan_usbbus1" THEN "PCAN_USBBUS1"
    ELSE IF channel = "vcan0" THEN "VCAN0"
    ELSE channel

\* "PCAN" in channel.upper()
HasPCAN(channel) == Upper(channel) \in {"PCAN_USBBUS1"}

Count(log, kind) == Cardinality({i \in DOMAIN log : log[i].kind = kind})

Kinds(log) == [i \in DOMAIN log |-> log[i].kind]

\* Result of a constructor body: the exception that leaves it ("none" when it
\* returns), the attributes it assigned, and the open attempts and handles
\* accumulated so far.
Res(exc, bus, kuksa, log, held) ==
    [exc |-> exc, bus |-> bus, kuksa |-> kuksa, log |-> log, held |-> held]

Ctx(r) == [log |-> r.log, held |-> r.held]

\* can.interface.Bus(interface=kind, ...): one open attempt.  A failed open
\* raises and acquires nothing; a successful one holds the handle `kind`.
BusOpen(env, ctx, kind, kuksa) ==
    LET n == Count(ctx.log, kind) + 1
        ok == IF kind \in {"socketcan", "virtual"} THEN env[kind][n] ELSE env[kind]
        entry == [kind |-> kind, res |-> IF ok THEN "ok" ELSE "Exception",
                  held |-> ctx.held]
    IN  IF ok
        THEN Res("none", kind, kuksa, Append(ctx.log, entry), ctx.held \union {kind})
        ELSE Res("Exception", NoBus, kuksa, Append(ctx.log, entry), ctx.held)

\* The ImportError handler without the second socketcan attempt.
kuksa_import_error_no_retry(env, ctx, channel) ==
    IF env.system = "windows"
    THEN IF HasPCAN(channel)
         THEN BusOpen(env, ctx, "pcan", FALSE)
         ELSE BusOpen(env, ctx, "virtual", FALSE)
    ELSE BusOpen(env, ctx, "virtual", FALSE)

\* The ImportError handler without the PCAN attempt.
kuksa_import_error_no_pcan(env, ctx, channel) ==
    IF env.system = "windows"
    THEN BusOpen(env, ctx, "virtual", FALSE)
    ELSE LET r == BusOpen(env, ctx, "socketcan", FALSE)
         IN  IF r.exc = "none" THEN r
             ELSE BusOpen(env, Ctx(r), "virtual", FALSE)

\* Lines 47-63: the handler of ImportError.

kuksa_import_error(env, ctx, channel) ==
    IF env.system = "windows"
    THEN IF HasPCAN(channel)
         THEN BusOpen(env, ctx, "pcan", FALSE)
         ELSE BusOpen(env, ctx, "virtual", FALSE)
    ELSE LET r == BusOpen(env, ctx, "socketcan", FALSE)
         IN  IF r.exc = "none" THEN r
             ELSE BusOpen(env, Ctx(r), "virtual", FALSE)

\* Lines 35-66: interface == "kuksa".
kuksa_branch(env, ctx, channel) ==
    LET try(res, held) == [kind |-> "kuksa", res |-> res, held |-> held]
    IN  CASE env.bridge = "ok" ->
                Res("none", "kuksa", TRUE,
                    Append(ctx.log, try("ok", ctx.held)), ctx.held \union {"kuksa"})
          [] env.bridge = "absent" ->
                kuksa_import_error(
                    env, [log |-> Append(ctx.log, try("ImportError", ctx.held)),
                          held |-> ctx.held], channel)
          [] env.bridge = "ctor_fails" ->
                BusOpen(env, [log |-> Append(ctx.log, try("Exception", ctx.held)),
                              held |-> ctx.held], "virtual", FALSE)
          [] env.bridge = "bus_fails" ->
                \* self._kuksa_client is assigned before .bus raises, and
                \* nothing stops it
                BusOpen(env, [log |-> Append(ctx.log, try("Exception", ctx.held)),
                              held |-> ctx.held \union {"kuksa"}], "virtual", TRUE)

\* The multicast branch without the check of port.
multicast_branch_unchecked(env, ctx, port) ==
    BusOpen(env, ctx, "udp_multicast", FALSE)

\* Lines 68-77: interface == "udp_multicast".

multicast_branch(env, ctx, port) ==
    IF port = NoPort
    THEN Res("ValueError", NoBus, FALSE, ctx.log, ctx.held)
    ELSE BusOpen(env, ctx, "udp_multicast", FALSE)

\* The direct branch with a fallback to virtual, as the kuksa branch has.
direct_branch_fallback(env, ctx, interface) ==
    LET r == BusOpen(env, ctx, interface, FALSE)
    IN  IF r.exc = "none" THEN r ELSE BusOpen(env, Ctx(r), "virtual", FALSE)

\* Lines 78-80: any other interface goes straight to python-can.

direct_branch(env, ctx, interface) ==
    BusOpen(env, ctx, interface, FALSE)

\* CANClient.__init__ that records the interface of the bus it ended up
\* with only for the direct branch, and "socketcan" (the default of the
\* parameter) otherwise.
CANClient_init_default_interface(env, ctx, interface, channel, bitrate, port, fd) ==
    LET r == IF interface = "kuksa" THEN kuksa_branch(env, ctx, channel)
             ELSE IF interface = "udp_multicast" THEN multicast_branch(env, ctx, port)
             ELSE direct_branch(env, ctx, interface)
    IN  [exc |-> r.exc,
         self |-> [interface |-> "socketcan", channel |-> channel, bitrate |-> bitrate,
                   fd |-> fd, bus |-> r.bus, kuksa |-> r.kuksa],
         log |-> r.log,
         held |-> r.held]

\* CANClient.__init__
CANClient_init(env, ctx, interface, channel, bitrate, port, fd) ==
    LET r == IF interface = "kuksa" THEN kuksa_branch(env, ctx, channel)
             ELSE IF interface = "udp_multicast" THEN multicast_branch(env, ctx, port)
             ELSE direct_branch(env, ctx, interface)
    IN  [exc |-> r.exc,
         self |-> [interface |-> interface, channel |-> channel, bitrate |-> bitrate,
                   fd |-> fd, bus |-> r.bus, kuksa |-> r.kuksa],
         log |-> r.log,
         held |-> r.held]

create_kuksa_client(env, ctx, channel, bitrate, can_fd) ==
    CANClient_init(env, ctx, "kuksa", channel, bitrate, NoPort, can_fd)

\* Lines 154-161: the windows arm of the inner try.
default_windows(env, ctx, channel, bitrate, can_fd) ==
    LET r1 == create_kuksa_client(env, ctx, channel, bitrate, can_fd)
    IN  IF r1.exc = "none" THEN r1
        ELSE CANClient_init(env, Ctx(r1), "virtual", channel, bitrate, NoPort, can_fd)

\* The posix arm with the first `return` lost: the socketcan client is
\* dropped and the next candidates are opened all the same.
default_posix_no_return(env, ctx, channel, bitrate, can_fd) ==
    LET r1 == CANClient_init(env, ctx, "socketcan", channel, bitrate, NoPort, can_fd)
        r2 == create_kuksa_client(env, Ctx(r1), channel, bitrate, can_fd)
    IN  IF r2.exc = "none" THEN r2
        ELSE CANClient_init(env, Ctx(r2), "virtual", channel, bitrate, NoPort, can_fd)

\* Lines 162-173: the other arm.
default_posix(env, ctx, channel, bitrate, can_fd) ==
    LET r1 == CANClient_init(env, ctx, "socketcan", channel, bitrate, NoPort, can_fd)
    IN  IF r1.exc = "none" THEN r1
        ELSE LET r2 == create_kuksa_client(env, Ctx(r1), channel, bitrate, can_fd)
             IN  IF r2.exc = "none" THEN r2
                 ELSE CANClient_init(env, Ctx(r2), "virtual", channel, bitrate,
                                     NoPort, can_fd)

\* create_default_client without its handlers: the first candidate only.
create_default_client_no_fallback(env, channel, bitrate, can_fd) ==
    LET ch == IF channel = NoChannel
              THEN (IF env.system # "windows" THEN "vcan0" ELSE "PCAN_USBBUS1")
              ELSE channel
    IN  IF env.system = "windows"
        THEN create_kuksa_client(env, [log |-> <<>>, held |-> {}], ch, bitrate, can_fd)
        ELSE CANClient_init(env, [log |-> <<>>, held |-> {}], "socketcan", ch, bitrate,
                            NoPort, can_fd)

\* Lines 142-177.
create_default_client(env, channel, bitrate, can_fd) ==
    LET ch == IF channel = NoChannel
              THEN (IF env.system # "windows" THEN "vcan0" ELSE "PCAN_USBBUS1")
              ELSE channel
        ctx0 == [log |-> <<>>, held |-> {}]
        inner == IF env.system = "windows"
                 THEN default_windows(env, ctx0, ch, bitrate, can_fd)
                 ELSE default_posix(env, ctx0, ch, bitrate, can_fd)
    IN  IF inner.exc = "none" THEN inner
        ELSE CANClient_init(env, Ctx(inner), "virtual", ch, bitrate, NoPort, can_fd)

\* ---------------------------------------------------------- client calls
\* Outcomes of the transport calls the client delegates to.
SendOutcomes == {"ok", "CanError", "Exception"}
RecvOutcomes == {"frame", "timeout", "CanError", "Exception"}
CloseOutcomes == {"ok", "Exception"}

\* A can.Message, by the fields the client passes on.
Frame(arbitration_id, data, is_extended_id, is_fd) ==
    [arbitration_id |-> arbitration_id, data |-> data,
     is_extended_id |-> is_extended_id, is_fd |-> is_fd]

\* bytes of length n
DataOfLen(n) == [i \in 1..n |-> i]

\* is_fd: bool = None
NoFlag == <<>>

\* Arguments of send(arbitration_id, data, is_extended_id, is_fd): a
\* standard-id frame that leaves is_fd to the client's setting, and an
\* extended-id classic frame of nine bytes.
SendArgs ==
    {[arbitration_id |-> 291, data |-> DataOfLen(8), is_extended_id |-> FALSE,
      is_fd |-> NoFlag],
     [arbitration_id |-> 417001744, data |-> DataOfLen(9), is_extended_id |-> TRUE,
      is_fd |-> <<FALSE>>]}

\* Arguments of send_message(message): CANMessage objects around a classic
\* frame of nine bytes and an FD frame of sixty-five bytes.
Messages ==
    {Frame(417001744, DataOfLen(9), TRUE, FALSE),
     Frame(291, DataOfLen(65), FALSE, TRUE)}

\* Frames that other nodes put on a bus.
BusFrames == {Frame(291, DataOfLen(0), FALSE, FALSE)}

\* send() with the default of is_fd lost: None becomes a classic frame.
send_is_fd_no_default(self, is_fd) ==
    IF is_fd = NoFlag THEN FALSE ELSE is_fd[1]

\* CANClient.send, lines 109-110.
send_is_fd(self, is_fd) ==
    IF is_fd = NoFlag THEN self.fd ELSE is_fd[1]

\* CANClient.send, lines 112-117: can.Message(...) is built from the
\* arguments as they are; the client checks no length.
send_msg(self, args) ==
    Frame(args.arbitration_id, args.data, args.is_extended_id,
          send_is_fd(self, args.is_fd))

\* send() that tries the transport again after a CAN error.
send_attempts_retry(outcome) == IF outcome = "CanError" THEN 2 ELSE 1

\* CANClient.send: the number of self._bus.send calls of one call.
send_attempts(outcome) == 1

\* CANClient.send_message: the number of self._bus.send calls of one call.
send_message_attempts(outcome) == 1

\* CANClient.recv: the number of self._bus.recv calls of one call.
recv_attempts(outcome) == 1

\* recv() that hands no timeout to the bus.
recv_timeout_dropped(timeout) == "none"

\* CANClient.recv, line 96: the timeout handed to self._bus.recv.
recv_timeout(timeout) == timeout

\* CANClient.recv, lines 104-106: the CANMessage wraps the message the bus
\* gave; nothing is returned without one.
recv_message(outcome, msg) ==
    IF outcome = "frame" THEN <<msg>> ELSE <<>>

\* stop() that forgets the bus, so that a later stop() finds nothing to do.
after_stop_forgets_bus(self) == [self EXCEPT !.bus = NoBus]

\* CANClient.stop assigns no attribute.
after_stop(self) == self

\* stop() without its handler.
stop_result_unhandled(outcome) ==
    IF outcome = "Exception" THEN "raised" ELSE "returned"

\* stop() with the else arm lost: only a bridge client is stopped.
stop_closes_bridge_only(self) ==
    IF self.kuksa THEN <<"kuksa">> ELSE <<>>

\* CANClient.stop: the close operations one call invokes, in order:
\* self._kuksa_client.stop() when the attribute is set, else
\* self._bus.shutdown().
stop_closes(self) ==
    IF self.kuksa THEN <<"kuksa">> ELSE <<self.bus>>

\* CANClient.stop: whatever the close operation raises is logged.
stop_result(outcome) == "returned"

\* recv() with the second handler lost.
recv_result_one_handler(outcome) ==
    CASE outcome = "frame" -> "CANMessage"
      [] outcome = "timeout" -> "None"
      [] outcome = "CanError" -> "None"
      [] outcome = "Exception" -> "raised"

\* CANClient.recv: what the caller gets for each outcome of self._bus.recv.
recv_result(outcome) ==
    CASE outcome = "frame" -> "CANMessage"
      [] outcome = "timeout" -> "None"
      [] outcome = "CanError" -> "None"
      [] outcome = "Exception" -> "None"

\* send() with the second handler lost.
send_result_one_handler(outcome) ==
    IF outcome = "Exception" THEN "raised" ELSE "returned"

\* CANClient.send: both handlers log and fall through.

send_result(outcome) == "returned"

\* CANClient.send_message: only can.CanError is handled.
send_message_result(outcome) ==
    IF outcome = "Exception" THEN "raised" ELSE "returned"

\* ------------------------------------------------------------------ state
VARIABLES
    pc,        \* "start": nothing constructed; "ready": a client was returned;
               \* "failed": the construction raised to the caller
    req,       \* the construction call that was made, and the platform
    client,    \* the attributes of the returned CANClient
    log,       \* the open attempts of the construction, in order
    held,      \* handles acquired and not closed
    closeLog,  \* the close operations stop() has invoked, in order
    stops,     \* number of stop() calls
    last,      \* the last call on the module and what the caller got
    queue,     \* messages pending in the bus' own receive queue
    rx         \* the reader thread: idle, or inside self._bus.recv

vars == <<pc, req, client, log, held, closeLog, stops, last, queue, rx>>

\* What a call left for its caller: the call and the frame fields it was
\* given (is_fd empty when left out), the outcome
\* of the transport call under it and how many of those it made, the message
\* handed to or taken from the transport, whether the bus was closed under
\* the call, and what the caller got.
Outcome(op, transport, result) ==
    [op |-> op, transport |-> transport, result |-> result, args |-> <<>>,
     frame |-> <<>>, calls |-> 0, closed |-> FALSE]

\* The reader thread outside recv().
Idle ==
    [state |-> "idle", asked |-> "none", timeout |-> "none", closed |-> FALSE,
     woken |-> FALSE]

\* The bus is a virtual bus opened with receive_own_messages=True.
Loopback == client.bus = "virtual" /\ req.loopback

NoClient ==
    [interface |-> NoBus, channel |-> NoBus, bitrate |-> 0, fd |-> FALSE,
     bus |-> NoBus, kuksa |-> FALSE]

NoReq ==
    [entry |-> "none", system |-> NoBus, interface |-> NoBus, channel |-> NoBus,
     port |-> NoPort, loopback |-> FALSE]

Init ==
    /\ pc = "start"
    /\ req = NoReq
    /\ client = NoClient
    /\ log = <<>>
    /\ held = {}
    /\ closeLog = <<>>
    /\ stops = 0
    /\ last = Outcome("none", "none", "none")
    /\ queue = <<>>
    /\ rx = Idle

\* The caller gets the client, or the exception.
Constructed(r, entry) ==
    /\ pc' = IF r.exc = "none" THEN "ready" ELSE "failed"
    /\ client' = IF r.exc = "none" THEN r.self ELSE NoClient
    /\ log' = r.log
    /\ held' = r.held
    /\ last' = Outcome(entry, "none", IF r.exc = "none" THEN "returned" ELSE r.exc)
    /\ UNCHANGED <<closeLog, stops, queue, rx>>

\* CANClient(interface=..., channel=..., port=..., fd=..., **kwargs)
NewCANClient ==
    /\ pc = "start"
    /\ \E env \in Envs, interface \in Interfaces, channel \in Channels,
          bitrate \in Bitrates, port \in Ports, fd \in BOOLEAN, own \in BOOLEAN :
          /\ req' = [entry |-> "CANClient", system |-> env.system,
                     interface |-> interface, channel |-> channel, port |-> port,
                     loopback |-> own]
          /\ Constructed(CANClient_init(env, [log |-> <<>>, held |-> {}], interface,
                                        channel, bitrate, port, fd), "CANClient")

\* create_kuksa_client(channel=..., can_fd=..., **kwargs)
NewKuksaClient ==
    /\ pc = "start"
    /\ \E env \in Envs, channel \in Channels, bitrate \in Bitrates, fd \in BOOLEAN,
          own \in BOOLEAN :
          /\ req' = [entry |-> "create_kuksa_client", system |-> env.system,
                     interface |-> "kuksa", channel |-> channel, port |-> NoPort,
                     loopback |-> own]
          /\ Constructed(create_kuksa_client(env, [log |-> <<>>, held |-> {}], channel,
                                             bitrate, fd), "create_kuksa_client")

\* create_default_client(channel=..., can_fd=...)
NewDefaultClient ==
    /\ pc = "start"
    /\ \E env \in Envs, channel \in Channels \union {NoChannel},
          bitrate \in Bitrates, fd \in BOOLEAN :
          /\ req' = [entry |-> "create_default_client", system |-> env.system,
                     interface |-> "default", channel |-> channel, port |-> NoPort,
                     loopback |-> FALSE]
          /\ Constructed(create_default_client(env, channel, bitrate, fd),
                         "create_default_client")

\* client.stop(), from the caller's thread or, while the reader is inside
\* self._bus.recv, from another one.  Closing the bus under a blocked recv
\* either wakes that call with an error or leaves it waiting.
Stop ==
    /\ pc = "ready"
    /\ stops < MaxStops
    /\ \E outcome \in CloseOutcomes, wake \in BOOLEAN :
          LET closes == stop_closes(client)
              closed == outcome = "ok" /\ \E i \in DOMAIN closes : closes[i] = client.bus
          IN  /\ closeLog' = closeLog \o [i \in DOMAIN closes |->
                                             [target |-> closes[i], outcome |-> outcome]]
              /\ held' = IF outcome = "ok"
                         THEN held \ {closes[i] : i \in DOMAIN closes}
                         ELSE held
              /\ last' = [Outcome("stop", outcome, stop_result(outcome))
                             EXCEPT !.calls = Len(closes)]
              /\ rx' = IF rx.state = "blocked" /\ closed /\ ~rx.closed
                       THEN [rx EXCEPT !.closed = TRUE, !.woken = wake]
                       ELSE rx
              /\ (rx.state = "blocked" /\ closed /\ ~rx.closed) \/ ~wake
    /\ client' = after_stop(client)
    /\ stops' = stops + 1
    /\ UNCHANGED <<pc, req, log, queue>>

\* client.recv(timeout) is entered: the reader is inside self._bus.recv,
\* with a timeout or (timeout=None) without one.
RecvCall ==
    /\ pc = "ready"
    /\ rx.state = "idle"
    /\ \E timeout \in {"finite", "none"} :
          rx' = [state |-> "blocked", asked |-> timeout,
                 timeout |-> recv_timeout(timeout), closed |-> FALSE, woken |-> FALSE]
    /\ last' = Outcome("recv_call", "none", "pending")
    /\ UNCHANGED <<pc, req, client, log, held, closeLog, stops, queue>>

\* What self._bus.recv can do for the blocked reader.  A bus closed under
\* it and woken raises; one closed and not woken runs into its timeout, and
\* without a timeout it never returns.  Otherwise a frame is delivered (the
\* oldest one pending on a bus that receives its own messages), the timeout
\* expires, or the transport fails.
RecvChoices ==
    IF rx.closed
    THEN IF rx.woken THEN {"CanError", "Exception"}
         ELSE IF rx.timeout = "finite" THEN {"timeout"} ELSE {}
    ELSE {"CanError", "Exception"}
         \union (IF Loopback /\ queue = <<>> THEN {} ELSE {"frame"})
         \union (IF rx.timeout = "finite" /\ (Loopback => queue = <<>>)
                 THEN {"timeout"} ELSE {})

\* client.recv(timeout) returns.
RecvReturn ==
    /\ pc = "ready"
    /\ rx.state = "blocked"
    /\ \E outcome \in RecvChoices, other \in BusFrames :
          LET msg == IF Loopback THEN Head(queue) ELSE other
          IN  /\ last' = [Outcome("recv", outcome, recv_result(outcome))
                             EXCEPT !.frame = recv_message(outcome, msg),
                                    !.calls = recv_attempts(outcome),
                                    !.closed = rx.closed]
              /\ queue' = IF outcome = "frame" /\ Loopback THEN Tail(queue) ELSE queue
    /\ rx' = Idle
    /\ UNCHANGED <<pc, req, client, log, held, closeLog, stops>>

\* self._bus.send(msg): a bus that receives its own messages queues what
\* was sent.
Sent(outcome, msg) ==
    IF outcome = "ok" /\ Loopback THEN Append(queue, msg) ELSE queue

\* client.send(arbitration_id, data, is_extended_id, is_fd)
Send ==
    /\ pc = "ready"
    /\ rx.state = "idle"
    /\ Len(queue) < MaxQueue
    /\ \E outcome \in SendOutcomes, args \in SendArgs :
          LET msg == send_msg(client, args)
          IN  /\ last' = [Outcome("send", outcome, send_result(outcome))
                             EXCEPT !.args = <<args>>, !.frame = <<msg>>,
                                    !.calls = send_attempts(outcome)]
              /\ queue' = Sent(outcome, msg)
    /\ UNCHANGED <<pc, req, client, log, held, closeLog, stops, rx>>

\* client.send_message(message)
SendMessage ==
    /\ pc = "ready"
    /\ rx.state = "idle"
    /\ Len(queue) < MaxQueue
    /\ \E outcome \in SendOutcomes, msg \in Messages :
          /\ last' = [Outcome("send_message", outcome, send_message_result(outcome))
                       EXCEPT !.args = <<[msg EXCEPT !.is_fd = <<msg.is_fd>>]>>,
                              !.frame = <<msg>>,
                              !.calls = send_message_attempts(outcome)]
          /\ queue' = Sent(outcome, msg)
    /\ UNCHANGED <<pc, req, client, log, held, closeLog, stops, rx>>

Next ==
    \/ NewCANClient
    \/ NewKuksaClient
    \/ NewDefaultClient
    \/ Stop
    \/ RecvCall
    \/ RecvReturn
    \/ Send
    \/ SendMessage

Spec == Init /\ [][Next]_vars

\* ----------------------------------------------------------------- claims
IsDefault == req.entry = "create_default_client"
Failed(i) == log[i].res # "ok"
AllFail(kind) == \A i \in DOMAIN log : log[i].kind = kind => Failed(i)
AllOk(kind) == \A i \in DOMAIN log : log[i].kind = kind => ~Failed(i)
TransportErrors == {"CanError", "Exception"}

\* C1: whenever every virtual open succeeds, create_default_client returns a
\* client (it does not raise), on either platform and whatever the other
\* opens do, and the transport of that client is open.
C1_DefaultAlwaysReturns ==
    (IsDefault /\ AllOk("virtual")) =>
        /\ pc = "ready"
        /\ last.op = "create_default_client" => last.result = "returned"
        /\ client.bus \in BusKinds \union {"kuksa"}
        /\ stops = 0 => client.bus \in held

\* C1 witness: every candidate before virtual failed (windows, bridge absent,
\* PCAN open failed) and the caller still has a client, on virtual.
C1_Witness ==
    /\ IsDefault /\ pc = "ready" /\ req.system = "windows"
    /\ Kinds(log) = <<"kuksa", "pcan", "virtual">>
    /\ Failed(1) /\ Failed(2)
    /\ client.bus = "virtual" /\ "virtual" \in held

\* C2 as stated: a construction naming one interface (kuksa included) makes
\* open attempts of that kind only, and a failed open is reported to the
\* caller with nothing opened.
C2_Original ==
    (req.entry \in {"CANClient", "create_kuksa_client"}) =>
        /\ \A i \in DOMAIN log : log[i].kind = req.interface
        /\ (\E i \in DOMAIN log : Failed(i)) => (pc = "failed" /\ held = {})

\* C2 amended: a construction naming an interface other than kuksa makes at
\* most one open attempt, of that kind, and when it fails the constructor
\* raises with nothing opened.
C2_ExplicitNoFallback ==
    (req.entry = "CANClient" /\ req.interface # "kuksa") =>
        /\ Len(log) <= 1
        /\ \A i \in DOMAIN log : log[i].kind = req.interface
        /\ (\E i \in DOMAIN log : Failed(i)) =>
              (pc = "failed" /\ held = {} /\ last.result = "Exception")

\* C2 witness: CANClient(interface="socketcan") whose open failed.
C2_Witness ==
    /\ req.entry = "CANClient" /\ req.interface = "socketcan"
    /\ pc = "failed" /\ Len(log) = 1 /\ Failed(1) /\ held = {}

\* C3 as stated: however many times stop() is called, the close operation
\* has been invoked exactly once.
C3_Original ==
    (pc = "ready" /\ stops >= 1) => Len(closeLog) = 1

\* C3 amended: each stop() call invokes the close operation once more (the
\* bridge's stop when a bridge client is set, else the bus' shutdown), and
\* no stop() call raises.
C3_StopClosesEachTime ==
    /\ Len(closeLog) = stops
    /\ \A i \in DOMAIN closeLog :
          closeLog[i].target = IF client.kuksa THEN "kuksa" ELSE client.bus
    /\ last.op = "stop" => last.result = "returned"

\* C3 witness: two stop() calls, two close invocations, the second one on a
\* bus that the first one had shut down.
C3_Witness ==
    /\ stops = 2 /\ Len(closeLog) = 2
    /\ closeLog[1].outcome = "ok" /\ closeLog[1].target = "virtual"
    /\ last.op = "stop" /\ last.result = "returned"

\* The scenario of C4: posix, the socket interface does not exist, the
\* bridge capability is absent, virtual opens.
C4_Scenario ==
    /\ IsDefault /\ req.system = "linux"
    /\ AllFail("socketcan")
    /\ \A i \in DOMAIN log : log[i].kind = "kuksa" => log[i].res = "ImportError"
    /\ AllOk("virtual")

\* C4 as stated: in that scenario the attempts are Socket, Bridge, Virtual,
\* none of them made twice.
C4_Original ==
    C4_Scenario => Kinds(log) = <<"socketcan", "kuksa", "virtual">>

\* C4 amended: on posix the default selection opens Socket first and Bridge
\* second, Bridge at most once and Virtual only after Bridge; in the
\* scenario the attempts are Socket, Bridge, Socket again, Virtual.
C4_PosixOrder ==
    (IsDefault /\ req.system = "linux") =>
        /\ log[1].kind = "socketcan"
        /\ Len(log) >= 2 => (Failed(1) /\ log[2].kind = "kuksa")
        /\ \A i \in DOMAIN log : i >= 3 => log[i].kind \in {"socketcan", "virtual"}
        /\ \A i, j \in DOMAIN log : (log[i].kind = "virtual" /\ i < j) => log[j].kind = "virtual"
        /\ C4_Scenario => Kinds(log) = <<"socketcan", "kuksa", "socketcan", "virtual">>

\* C4 witness: the scenario, with its four attempts.
C4_Witness ==
    /\ C4_Scenario /\ pc = "ready"
    /\ Len(log) = 4 /\ Failed(1) /\ Failed(2) /\ Failed(3) /\ ~Failed(4)
    /\ client.bus = "virtual"

\* The channel create_default_client works with on windows.
C5_Channel == IF req.channel = NoChannel THEN "PCAN_USBBUS1" ELSE req.channel

\* C5 as stated: on windows, when the bridge open fails, a multicast open is
\* attempted, and before any virtual open.
C5_Original ==
    (IsDefault /\ req.system = "windows" /\ Failed(1)) =>
        \E i \in DOMAIN log :
            /\ log[i].kind = "udp_multicast"
            /\ \A j \in DOMAIN log : log[j].kind = "virtual" => i < j

\* C5 amended: on windows the default selection opens Bridge first; when
\* that fails the next open is PCAN if the capability was absent and the
\* channel names PCAN, else Virtual; everything after is Virtual; Multicast
\* is never opened.
C5_WindowsOrder ==
    (IsDefault /\ req.system = "windows") =>
        /\ log[1].kind = "kuksa"
        /\ Len(log) >= 2 =>
              /\ Failed(1)
              /\ log[2].kind =
                    IF log[1].res = "ImportError" /\ C5_Channel \in {"PCAN_USBBUS1", "pcan_usbbus1"}
                    THEN "pcan" ELSE "virtual"
        /\ \A i \in DOMAIN log : i >= 3 => log[i].kind = "virtual"
        /\ \A i \in DOMAIN log : log[i].kind # "udp_multicast"

\* C5 witness: bridge absent, PCAN channel given in lower case, PCAN open
\* failed, virtual opened.
C5_Witness ==
    /\ IsDefault /\ req.system = "windows" /\ pc = "ready"
    /\ req.channel = "pcan_usbbus1"
    /\ Kinds(log) = <<"kuksa", "pcan", "virtual">>
    /\ log[1].res = "ImportError" /\ Failed(2) /\ ~Failed(3)

\* C6: in the default selection a successful open is the last open, and the
\* client that is returned wraps the transport it opened.
C6_FirstSuccessWins ==
    IsDefault =>
        /\ \A i \in DOMAIN log : ~Failed(i) => i = Len(log)
        /\ pc = "ready" => (~Failed(Len(log)) /\ client.bus = log[Len(log)].kind)

\* C6 witness: the second candidate (the bridge) opened after the first one
\* failed, and it is the one the client wraps.
C6_Witness ==
    /\ IsDefault /\ pc = "ready" /\ req.system = "linux"
    /\ Len(log) = 2 /\ Failed(1) /\ ~Failed(2)
    /\ client.bus = "kuksa"

\* C7 as stated: on an open client, a failed transport send makes send and
\* send_message raise.
C7_Original ==
    (pc = "ready" /\ stops = 0 /\ last.op \in {"send", "send_message"}
       /\ last.transport \in TransportErrors) => last.result = "raised"

\* C7 amended: send returns normally whatever the transport's send raised;
\* send_message returns normally on a CAN error and raises on any other
\* exception.
C7_SendSwallows ==
    /\ (last.op = "send" /\ last.transport \in TransportErrors) => last.result = "returned"
    /\ (last.op = "send_message" /\ last.transport = "CanError") => last.result = "returned"
    /\ (last.op = "send_message" /\ last.transport = "Exception") => last.result = "raised"

\* C7 witness: send on an open client whose transport raised something other
\* than a CAN error, and the caller saw a normal return.
C7_Witness ==
    /\ pc = "ready" /\ stops = 0
    /\ last.op = "send" /\ last.transport = "Exception" /\ last.result = "returned"

\* C8 as stated: a timeout gives None, and a failed transport receive gives
\* the caller something else than None.
C8_Original ==
    last.op = "recv" =>
        /\ last.transport = "timeout" => last.result = "None"
        /\ last.transport \in TransportErrors => last.result = "raised"

\* C8 amended: recv gives None on a timeout and also None when the
\* transport's receive raised; it gives a CANMessage exactly when a frame
\* arrived, and it never raises.
C8_RecvNoneOnError ==
    last.op = "recv" =>
        last.result = IF last.transport = "frame" THEN "CANMessage" ELSE "None"

\* C8 witness: a failed transport receive that the caller saw as None.
C8_Witness ==
    /\ last.op = "recv" /\ last.transport = "Exception" /\ last.result = "None"

\* C9: no open attempt starts while a handle of an earlier candidate is still
\* held, and a returned client comes with exactly one open handle.
C9_NoLeak ==
    /\ \A i \in DOMAIN log : log[i].held = {}
    /\ (pc = "ready" /\ stops = 0) => Cardinality(held) = 1

\* C10: CANClient(interface="udp_multicast") without a port raises ValueError
\* with no open attempted and nothing opened.
C10_MulticastNeedsPort ==
    (req.entry = "CANClient" /\ req.interface = "udp_multicast" /\ req.port = NoPort) =>
        /\ pc = "failed"
        /\ last.result = "ValueError"
        /\ log = <<>>
        /\ held = {}

\* C10 witness: that call was made and raised.
C10_Witness ==
    /\ req.entry = "CANClient" /\ req.interface = "udp_multicast" /\ req.port = NoPort
    /\ pc = "failed" /\ last.op = "CANClient" /\ last.result = "ValueError"

\* C11: stop() returns normally whatever the close operation under it did.
C11_StopNeverRaises ==
    last.op = "stop" => (last.calls = 1 /\ last.result = "returned")

\* C11 witness: a stop() whose close operation raised, and that returned.
C11_Witness ==
    /\ pc = "ready" /\ last.op = "stop"
    /\ last.transport = "Exception" /\ last.result = "returned"

\* The frame a send(...) or send_message(...) call asks to have sent.
C12_Asked(args) ==
    Frame(args.arbitration_id, args.data, args.is_extended_id,
          IF args.is_fd = NoFlag THEN client.fd ELSE args.is_fd[1])

\* C12: on a virtual bus that receives its own messages, every send that the
\* transport accepts queues the frame the caller asked for, with its
\* arbitration_id, data, is_extended_id and is_fd, behind the frames sent
\* before; and every recv that gives a CANMessage gives the oldest frame
\* still queued, and takes it off the queue.
C12_RoundTrip ==
    [][Loopback =>
          /\ (last'.op \in {"send", "send_message"} /\ last'.transport = "ok") =>
                queue' = Append(queue, C12_Asked(last'.args[1]))
          /\ (last'.op \in {"send", "send_message"} /\ last'.transport # "ok") =>
                queue' = queue
          /\ (last'.op = "recv" /\ last'.result = "CANMessage") =>
                (queue # <<>> /\ last'.frame = <<Head(queue)>> /\ queue' = Tail(queue))
          /\ (last'.op = "recv" /\ last'.result # "CANMessage") =>
                (queue' = queue /\ last'.frame = <<>>)]_vars

\* C12 witness: on an FD client, a frame sent with is_fd left out came back
\* from recv as an FD frame while a frame sent after it is still queued.
C12_Witness ==
    /\ Loopback /\ client.fd
    /\ last.op = "recv" /\ last.result = "CANMessage"
    /\ last.frame = <<Frame(291, DataOfLen(8), FALSE, TRUE)>>
    /\ queue = <<Frame(417001744, DataOfLen(9), TRUE, FALSE)>>

\* C13: a frame handed to the transport's send has at most 8 bytes of data
\* when it is a classic frame and at most 64 when it is an FD frame.
C13_LengthChecked ==
    (last.op \in {"send", "send_message"} /\ last.calls >= 1) =>
        \A i \in DOMAIN last.frame :
            Len(last.frame[i].data) <= IF last.frame[i].is_fd THEN 64 ELSE 8

\* The reader is inside a recv that can never return.
Hung == rx.state = "blocked" /\ RecvChoices = {}

\* C14 as stated: a recv under which the bus is closed by another thread is
\* never left hanging, and it gives its caller an error.
C14_Original ==
    /\ (rx.state = "blocked" /\ rx.closed) => ~Hung
    /\ (last.op = "recv" /\ last.closed) => last.result = "raised"

\* C14 amended: a recv called with a timeout is never left hanging, also
\* when the bus is closed under it; and a recv under which the bus was
\* closed gives its caller None, as a timeout does.
C14_ClosedRecvGivesNone ==
    /\ (rx.state = "blocked" /\ rx.asked = "finite") => ~Hung
    /\ (last.op = "recv" /\ last.closed) =>
          (last.result = "None" /\ last.frame = <<>>)

\* C14 witness: the bus was shut down under a blocked recv, which was woken
\* by an error and gave None.
C14_Witness ==
    /\ last.op = "recv" /\ last.closed
    /\ last.transport \in TransportErrors /\ last.result = "None"
    /\ stops >= 1 /\ client.bus \notin held

\* C15: one send, send_message or recv call makes one call of the
\* transport, whether that call succeeds or fails.
C15_OneTransportCall ==
    last.op \in {"send", "send_message", "recv"} => last.calls = 1

\* C15 witness: a send whose transport call failed with a CAN error, and
\* was not made again.
C15_Witness ==
    /\ last.op = "send" /\ last.transport = "CanError" /\ last.calls = 1

\* C16: once constructed, the client's attributes (the bus it delegates to,
\* the bridge client, interface, channel, bitrate, fd) are changed by no
\* call.
C16_ClientFixed ==
    [][pc = "ready" => (pc' = "ready" /\ client' = client)]_vars

\* C16 witness: a client that has been stopped twice and used for a send
\* after that, with its attributes in place.
C16_Witness ==
    /\ pc = "ready" /\ stops = 2 /\ last.op = "send_message"
    /\ req.entry = "CANClient" /\ client.interface = req.interface
    /\ client.channel = req.channel /\ client.bitrate = DefaultBitrate
    /\ client.bus = "virtual"

\* C17: after a stop() whose close operation succeeded, the bus that send
\* and recv delegate to is not open any more.
C17_StopReleasesBus ==
    (pc = "ready" /\ last.op = "stop" /\ last.transport = "ok") =>
        client.bus \notin held

\* C18 as stated: the interface a client records is the kind of the
\* transport it holds.
C18_Original ==
    pc = "ready" => client.bus = client.interface

\* C18 amended: the interface a client records is the one that was asked
\* for; it is the kind of the transport it holds unless it is kuksa, and a
\* kuksa client holds the bridge's bus exactly when the bridge opened, and
\* else the socketcan, PCAN or virtual bus of the fallback.
C18_InterfaceUnlessKuksa ==
    pc = "ready" =>
        /\ req.entry # "create_default_client" => client.interface = req.interface
        /\ client.interface # "kuksa" => client.bus = client.interface
        /\ client.interface = "kuksa" =>
              /\ client.bus \in {"kuksa", "socketcan", "pcan", "virtual"}
              /\ client.bus = "kuksa" <=>
                    \E i \in DOMAIN log : log[i].kind = "kuksa" /\ ~Failed(i)

\* C18 witness: a client recorded as kuksa that holds a virtual bus.
C18_Witness ==
    /\ pc = "ready" /\ req.entry = "create_kuksa_client"
    /\ client.interface = "kuksa" /\ client.bus = "virtual"

\* C19: a send(...) and the send_message(...) made next, for the same frame
\* and with the same outcome of the transport's send, both return normally or
\* both raise; and the same with send_message first.
C19_SameOutcome ==
    [][(/\ \/ (last.op = "send" /\ last'.op = "send_message")
           \/ (last.op = "send_message" /\ last'.op = "send")
        /\ last'.frame = last.frame
        /\ last'.transport = last.transport)
       => (last'.result = "raised" <=> last.result = "raised")]_vars

====
